---- MODULE Spec2Model ----
(***************************************************************************)
(* The embedded-Postgres startup of cmd/server/shared/postgres.go:         *)
(* maybePostgresProcFile and the upgrade it runs, maybeUpgradePostgres,    *)
(* as a state machine over the data directories, the upgrade directories   *)
(* with their status files, and the position of the running startup.       *)
(* Every external call (file system, docker API, shelled-out command) has  *)
(* its outcome chosen by the environment; the process can be killed at     *)
(* any position.                                                           *)
(***************************************************************************)
EXTENDS Integers, Sequences, FiniteSets, TLC

\* Version strings that PG_VERSION (the marker file and the environment
\* variable) range over.
Versions == {"9.6", "10", "11"}

\* Number of startups (runs of maybePostgresProcFile) explored.
MaxRuns == 3

\* Number of startups explored when status files are also written from outside.
MaxOperatorRuns == 2

\* Number of times somebody other than the program writes a status file.
MaxForeignWrites == 1

\* An (oldVersion, newVersion) pair names one upgrade directory
\* ".<old>-to-<new>-upgrade" and the status file in it.
Pairs == Versions \X Versions

\* What a data directory can hold: nothing (the directory does not exist), a
\* directory without a readable PG_VERSION, or a cluster of some version.
Content == {"absent", "partial"} \cup Versions

\* Trimmed contents of a status file; "absent" is "no such file".
FileContent == {"absent", "", "started", "done", "garbage"}

VARIABLES
    data,          \* contents of path (DATA_DIR/postgresql)
    side,          \* side[v]: contents of path-v
    upgradeDirs,   \* the pairs whose upgradeDir exists
    statusFile,    \* statusFile[p]: contents of the status file of pair p
    pc,            \* position of the running startup, "idle" between runs
    newVersion,    \* version (PG_VERSION of the environment, defaulted)
    oldVersion,    \* trimmed PG_VERSION of the data directory, "" before it is read
    bs,            \* the bytes ReadFile returned for the status file, "unread" before
    status,        \* trimmed status as read by this run, "unread" before
    exitCode,      \* exit status delivered by ContainerWait, -1 before
    eerr,          \* the execer's sticky error of the finalisation commands
    result,        \* how the last run ended
    errAt,         \* the step whose error the last run returned
    log,           \* the steps of the current run that completed, in order
    runs,          \* startups so far
    foreign,       \* foreign status-file writes so far
    pending,       \* pair of a run that ended between "started" and "done"
    pendingAtStart,\* pending, as it was when the current run started
    clean,         \* an upgrade run returned success and nothing failed since
    startedAtSuccess, \* the pairs whose status was "started" when clean was set
    pgDefaults,    \* the PGHOST/PGUSER/PGDATABASE/PGSSLMODE defaults were set
    binds,         \* c.HostConfig.Binds of the inspected container
    mounts,        \* c.Mounts of the inspected container
    reqPath,       \* the path hostMountPoint is asked for
    hmOut,         \* what hostMountPoint returned, <<"pending">> before
    marker,        \* the bytes of the PG_VERSION file of the data directory
    pgVersionEnv,  \* os.Getenv("PG_VERSION")
    decision,      \* what the run decided for marker and pgVersionEnv
    remediated,    \* the pair the operator remediated and the runs before it
    offset,        \* f.offset of the file handle
    size,          \* fi.Size() of the file behind the handle
    seekRet        \* how the last call on the handle ended

fsVars == <<data, side, upgradeDirs, statusFile>>
localVars == <<newVersion, oldVersion, bs, status, exitCode, eerr>>
histVars == <<pending, pendingAtStart, clean, startedAtSuccess>>
verVars == <<marker, pgVersionEnv, decision>>
fileVars == <<offset, size, seekRet>>
\* What no step of a startup touches.
cfgVars == <<binds, mounts, reqPath, hmOut, verVars, remediated, fileVars>>
vars == <<data, side, upgradeDirs, statusFile, pc, newVersion, oldVersion,
          bs, status, exitCode, eerr, result, errAt, log, runs, foreign, pending,
          pendingAtStart, clean, startedAtSuccess, pgDefaults, binds, mounts,
          reqPath, hmOut, marker, pgVersionEnv, decision, remediated, offset,
          size, seekRet>>

HasEv(l, e) == \E i \in 1..Len(l) : l[i] = e

pair == <<oldVersion, newVersion>>

StartedPairs(sf) == {p \in Pairs : sf[p] = "started"}

\* The disk and the program before the first startup.
InitProgram ==
    /\ data \in {"absent"} \cup Versions
    /\ side = [v \in Versions |-> "absent"]
    /\ upgradeDirs = {}
    /\ statusFile = [p \in Pairs |-> "absent"]
    /\ pc = "idle"
    /\ newVersion = "11"
    /\ oldVersion = ""
    /\ bs = "unread"
    /\ status = "unread"
    /\ exitCode = -1
    /\ eerr = "nil"
    /\ result = "none"
    /\ errAt = "none"
    /\ log = <<>>
    /\ runs = 0
    /\ foreign = 0
    /\ pending = <<>>
    /\ pendingAtStart = <<>>
    /\ clean = FALSE
    /\ startedAtSuccess = {}
    /\ pgDefaults = FALSE
    /\ remediated = <<>>

\* No container has been inspected on its own.
NoInspection ==
    /\ binds = <<>>
    /\ mounts = <<>>
    /\ reqPath = <<>>
    /\ hmOut = <<"pending">>

\* No version has been compared on its own.
NoComparison ==
    /\ marker = <<>>
    /\ pgVersionEnv = <<>>
    /\ decision = <<"undecided">>

\* No file handle is open.
NoFile ==
    /\ offset = 0
    /\ size = 0
    /\ seekRet = <<"none">>

Init == InitProgram /\ NoInspection /\ NoComparison /\ NoFile

\* The run ends: maybePostgresProcFile returns (res, at) or the process dies.
\* Uses log' and statusFile', which the calling action fixes first.
Finish(res, at) ==
    /\ pc' = "idle"
    /\ result' = res
    /\ errAt' = at
    /\ pending' =
         IF HasEv(log', "writeStarted") /\ ~HasEv(log', "writeDone")
         THEN pair
         ELSE IF HasEv(log', "writeDone") /\ pending = pair THEN <<>>
         ELSE pending
    /\ clean' =
         IF res = "procfile" /\ HasEv(log', "writeDone") THEN TRUE
         ELSE IF res = "killed" \/ (res = "error" /\ at # "gate") THEN FALSE
         ELSE clean
    /\ startedAtSuccess' =
         IF res = "procfile" /\ HasEv(log', "writeDone") /\ ~clean
         THEN StartedPairs(statusFile')
         ELSE startedAtSuccess
    /\ pgDefaults' = (res = "procfile")
    /\ UNCHANGED <<pendingAtStart, runs, foreign, cfgVars>>

\* A step that completed and hands over to the next position.
Step(from, to, ev) ==
    /\ pc = from
    /\ pc' = to
    /\ log' = Append(log, ev)
    /\ UNCHANGED <<result, errAt, runs, foreign, histVars, pgDefaults, cfgVars>>

\* The caller passes over the error and goes on to the process line.
Fail_proceed(from, at) ==
    /\ pc = from
    /\ log' = log
    /\ Finish("procfile", at)

\* A step whose call returned an error, which the run returns.
Fail(from, at) ==
    /\ pc = from
    /\ log' = log
    /\ Finish("error", at)


(***************************************************************************)
(* maybePostgresProcFile, up to the call of maybeUpgradePostgres.          *)
(***************************************************************************)

\* The defaults are set before the configuration of the environment is
\* looked at.
StartRunUpTo_defaultsFirst(n) ==
    /\ pc = "idle"
    /\ runs < n
    /\ runs' = runs + 1
    /\ \E v \in Versions : newVersion' = v
    /\ oldVersion' = ""
    /\ bs' = "unread"
    /\ status' = "unread"
    /\ exitCode' = -1
    /\ eerr' = "nil"
    /\ log' = <<>>
    /\ pendingAtStart' = pending
    /\ UNCHANGED <<fsVars, foreign, cfgVars>>
    /\ \/ /\ pc' = "idle" /\ result' = "external" /\ errAt' = "none"
          /\ UNCHANGED <<pending, clean, startedAtSuccess>>
       \/ /\ pc' = "idle" /\ result' = "error" /\ errAt' = "setup"
          /\ clean' = FALSE
          /\ UNCHANGED <<pending, startedAtSuccess>>
       \/ /\ pc' = "idle" /\ result' = "error" /\ errAt' = "stat"
          /\ clean' = FALSE
          /\ UNCHANGED <<pending, startedAtSuccess>>
       \/ /\ data = "absent"
          /\ pc' = "initdb" /\ result' = "none" /\ errAt' = "none"
          /\ UNCHANGED <<pending, clean, startedAtSuccess>>
       \/ /\ data # "absent"
          /\ pc' = "chown" /\ result' = "none" /\ errAt' = "none"
          /\ UNCHANGED <<pending, clean, startedAtSuccess>>
    /\ pgDefaults' = (result' = "external")

\* Lines 24-47: the environment is read, /run/postgresql is prepared and
\* path is stat'ed. external: PGHOST or PGDATASOURCE is set.
StartRunUpTo(n) ==
    /\ pc = "idle"
    /\ runs < n
    /\ runs' = runs + 1
    /\ \E v \in Versions : newVersion' = v
    /\ oldVersion' = ""
    /\ bs' = "unread"
    /\ status' = "unread"
    /\ exitCode' = -1
    /\ eerr' = "nil"
    /\ log' = <<>>
    /\ pendingAtStart' = pending
    /\ pgDefaults' = FALSE
    /\ UNCHANGED <<fsVars, foreign, cfgVars>>
    /\ \/ /\ pc' = "idle" /\ result' = "external" /\ errAt' = "none"
          /\ UNCHANGED <<pending, clean, startedAtSuccess>>
       \/ /\ pc' = "idle" /\ result' = "error" /\ errAt' = "setup"
          /\ clean' = FALSE
          /\ UNCHANGED <<pending, startedAtSuccess>>
       \/ /\ pc' = "idle" /\ result' = "error" /\ errAt' = "stat"
          /\ clean' = FALSE
          /\ UNCHANGED <<pending, startedAtSuccess>>
       \/ /\ data = "absent"
          /\ pc' = "initdb" /\ result' = "none" /\ errAt' = "none"
          /\ UNCHANGED <<pending, clean, startedAtSuccess>>
       \/ /\ data # "absent"
          /\ pc' = "chown" /\ result' = "none" /\ errAt' = "none"
          /\ UNCHANGED <<pending, clean, startedAtSuccess>>

StartRun == StartRunUpTo(MaxRuns)

\* A failed initialisation leaves what it had created.
InitDb_leavePartial ==
    /\ pc = "initdb"
    /\ UNCHANGED <<side, upgradeDirs, statusFile, localVars>>
    /\ \/ /\ data' = newVersion
          /\ log' = Append(log, "initdb")
          /\ Finish("procfile", "none")
       \/ /\ data' \in {"absent", "partial"}
          /\ log' = log
          /\ Finish("error", "initdb")

\* Lines 53-67: first-time initialisation of path with the running version;
\* on a failing command path is removed.
InitDb ==
    /\ pc = "initdb"
    /\ UNCHANGED <<side, upgradeDirs, statusFile, localVars>>
    /\ \/ /\ data' = newVersion
          /\ log' = Append(log, "initdb")
          /\ Finish("procfile", "none")
       \/ /\ data' = "absent"
          /\ log' = log
          /\ Finish("error", "initdb")

\* Lines 69-77: chown -R postgres path.
ChownPath ==
    /\ pc = "chown"
    /\ UNCHANGED <<fsVars, localVars>>
    /\ \/ Step("chown", "readVersion", "chownPath")
       \/ Fail("chown", "chownPath")

(***************************************************************************)
(* maybeUpgradePostgres(path, newVersion).                                 *)
(***************************************************************************)

\* A marker that cannot be read is taken to hold the expected version.
ReadVersion_assumeCurrent ==
    /\ pc = "readVersion"
    /\ UNCHANGED <<fsVars, newVersion, bs, status, exitCode, eerr>>
    /\ oldVersion' = IF data \in Versions THEN data ELSE newVersion
    /\ Step("readVersion", "containerID", "readVersion")

\* Lines 103-106 and 125: the PG_VERSION marker of path is read and trimmed.
ReadVersion ==
    /\ pc = "readVersion"
    /\ UNCHANGED <<fsVars, newVersion, bs, status, exitCode, eerr>>
    /\ \/ /\ data \in Versions
          /\ oldVersion' = data
          /\ Step("readVersion", "containerID", "readVersion")
       \/ /\ oldVersion' = oldVersion
          /\ Fail("readVersion", "readVersion")

\* Lines 108-111: containerID().
ContainerID ==
    /\ pc = "containerID"
    /\ UNCHANGED <<fsVars, localVars>>
    /\ \/ Step("containerID", "newClient", "containerID")
       \/ Fail("containerID", "containerID")

\* Lines 114-117: docker.NewClientWithOpts.
NewClient ==
    /\ pc = "newClient"
    /\ UNCHANGED <<fsVars, localVars>>
    /\ \/ Step("newClient", "hostMountPoint", "newClient")
       \/ Fail("newClient", "newClient")

\* Lines 120-123: hostMountPoint(ctx, cli, id, filepath.Dir(path)): the
\* container is inspected and the mount of the data directory looked up.
ResolveHostDataDir ==
    /\ pc = "hostMountPoint"
    /\ UNCHANGED <<fsVars, localVars>>
    /\ \/ Step("hostMountPoint", "mkdirUpgradeDir", "inspect")
       \/ Fail("hostMountPoint", "inspect")
       \/ /\ pc = "hostMountPoint"
          /\ log' = Append(log, "inspect")
          /\ Finish("error", "hostMountPoint")

\* Lines 130-131: os.MkdirAll(upgradeDir).
MkdirUpgradeDir ==
    /\ pc = "mkdirUpgradeDir"
    /\ UNCHANGED <<data, side, statusFile, localVars>>
    /\ \/ /\ upgradeDirs' = upgradeDirs \cup {pair}
          /\ Step("mkdirUpgradeDir", "readStatus", "mkdirUpgradeDir")
       \/ /\ upgradeDirs' = upgradeDirs
          /\ Fail("mkdirUpgradeDir", "mkdirUpgradeDir")

\* Whatever the file holds, the status comes out empty.
TrimmedStatus_lost(content) == ""

\* The status read is "started" as soon as any pair's file holds it.
ReadStatus_anyPair ==
    /\ pc = "readStatus"
    /\ UNCHANGED <<fsVars, newVersion, oldVersion, exitCode, eerr>>
    /\ bs' = IF StartedPairs(statusFile) # {} THEN "started"
             ELSE statusFile[pair]
    /\ status' = IF bs' = "absent" THEN "" ELSE bs'
    /\ Step("readStatus", "gate", "readStatus")

\* string(bytes.TrimSpace(bs)) of line 138 for the bytes ReadFile left in bs:
\* a missing file ("absent") leaves bs nil.
TrimmedStatus(content) == IF content = "absent" THEN "" ELSE content

\* The status is read but the run goes on without consulting it.
ReadStatus_skipGate ==
    /\ pc = "readStatus"
    /\ UNCHANGED <<fsVars, newVersion, oldVersion, exitCode, eerr>>
    /\ bs' = statusFile[pair]
    /\ status' = TrimmedStatus(bs')
    /\ Step("readStatus", "versionCheck", "readStatus")

\* Lines 132-134 and 138: the status file is read; a missing file is no error.
ReadStatus ==
    /\ pc = "readStatus"
    /\ UNCHANGED <<fsVars, newVersion, oldVersion, exitCode, eerr>>
    /\ \/ /\ bs' = statusFile[pair]
          /\ status' = TrimmedStatus(bs')
          /\ Step("readStatus", "gate", "readStatus")
       \/ /\ statusFile[pair] # "absent"
          /\ bs' = bs
          /\ status' = status
          /\ Fail("readStatus", "readStatus")

\* The gate testing for the wrong status value.
IsInterrupted_done(s) == s = "done"

\* The gate rejecting every status it does not know to be harmless.
IsInterrupted_notDone(s) == s # "" /\ s # "done"

\* Line 139: the test that sends the run into the interrupted-upgrade branch.
IsInterrupted(s) == s = "started"

\* Lines 139-157: an interrupted upgrade is reported and the run fails.
Gate ==
    /\ pc = "gate"
    /\ UNCHANGED <<fsVars, localVars>>
    /\ \/ /\ IsInterrupted(status)
          /\ Fail("gate", "gate")
       \/ /\ ~IsInterrupted(status)
          /\ Step("gate", "versionCheck", "gate")

\* The versions are not compared: every run that passes the gate upgrades.
VersionCheck_none ==
    /\ pc = "versionCheck"
    /\ UNCHANGED <<fsVars, localVars>>
    /\ Step("versionCheck", "writeStarted", "versionCheck")

\* Lines 159-162 (and 90-97 of the caller): nothing to do when the versions
\* are equal.
VersionCheck ==
    /\ pc = "versionCheck"
    /\ UNCHANGED <<fsVars, localVars>>
    /\ \/ /\ oldVersion = newVersion
          /\ pc = "versionCheck"
          /\ log' = Append(log, "versionCheck")
          /\ Finish("procfile", "none")
       \/ /\ oldVersion # newVersion
          /\ Step("versionCheck", "writeStarted", "versionCheck")

\* The upgrade begins without the status being written.
WriteStarted_noWrite ==
    /\ pc = "writeStarted"
    /\ UNCHANGED <<fsVars, localVars, result, errAt, runs, foreign, histVars,
                   pgDefaults, cfgVars>>
    /\ pc' = "pull"
    /\ log' = log

\* Lines 166-168: ioutil.WriteFile(statusFile, "started").
WriteStarted ==
    /\ pc = "writeStarted"
    /\ UNCHANGED <<data, side, upgradeDirs, localVars>>
    /\ \/ /\ statusFile' = [statusFile EXCEPT ![pair] = "started"]
          /\ Step("writeStarted", "pull", "writeStarted")
       \/ /\ statusFile' = statusFile
          /\ Fail("writeStarted", "writeStarted")

\* A failed pull is passed over and the container created all the same.
ImagePull_swallow ==
    /\ pc = "pull"
    /\ UNCHANGED <<fsVars, localVars>>
    /\ \/ Step("pull", "create", "pull")
       \/ /\ pc' = "create"
          /\ log' = log
          /\ UNCHANGED <<result, errAt, runs, foreign, histVars, pgDefaults,
                         cfgVars>>

\* Lines 177-183: cli.ImagePull and the copy of its output.
ImagePull ==
    /\ pc = "pull"
    /\ UNCHANGED <<fsVars, localVars>>
    /\ \/ Step("pull", "create", "pull")
       \/ Fail("pull", "pull")
       \/ Fail("pull", "pullCopy")

\* Lines 185-202: cli.ContainerCreate with the three binds.
ContainerCreate ==
    /\ pc = "create"
    /\ UNCHANGED <<fsVars, localVars>>
    /\ \/ Step("create", "start", "create")
       \/ Fail("create", "create")

\* Lines 204-206: cli.ContainerStart. The started container has path-newVersion
\* bound as its new data directory, so the directory exists from here on.
ContainerStart ==
    /\ pc = "start"
    /\ UNCHANGED <<data, upgradeDirs, statusFile, localVars>>
    /\ \/ /\ side' = [side EXCEPT ![newVersion] =
                         IF @ = "absent" THEN "partial" ELSE @]
          /\ Step("start", "wait", "start")
       \/ /\ side' = side
          /\ Fail("start", "start")

\* The run goes from the wait to the finalisation without the logs.
ContainerWait_noDrain ==
    /\ pc = "wait"
    /\ UNCHANGED <<data, upgradeDirs, statusFile, newVersion, oldVersion,
                   bs, status, eerr>>
    /\ \/ \E c \in {0, 1} :
            /\ exitCode' = c
            /\ side' = IF c = 0 THEN [side EXCEPT ![newVersion] = newVersion]
                       ELSE side
            /\ Step("wait", "mv1", "wait")
       \/ /\ exitCode' = exitCode
          /\ side' = side
          /\ Fail("wait", "wait")

\* The select listens to the error channel alone: a status leaves the run
\* blocked in the wait.
ContainerWait_errchOnly ==
    /\ pc = "wait"
    /\ UNCHANGED <<data, upgradeDirs, statusFile, newVersion, oldVersion,
                   bs, status, eerr>>
    /\ \/ /\ exitCode' \in {0, 1}
          /\ side' = side
          /\ pc' = "blocked"
          /\ log' = log
          /\ UNCHANGED <<result, errAt, runs, foreign, histVars, pgDefaults,
                         cfgVars>>
       \/ /\ exitCode' = exitCode
          /\ side' = side
          /\ Fail("wait", "wait")

\* Lines 208-215: the select on the two channels of cli.ContainerWait. A
\* status (exit code c) ends the wait whatever c is; an error is returned.
\* A container that exits 0 has written a newVersion cluster.
ContainerWait ==
    /\ pc = "wait"
    /\ UNCHANGED <<data, upgradeDirs, statusFile, newVersion, oldVersion,
                   bs, status, eerr>>
    /\ \/ \E c \in {0, 1} :
            /\ exitCode' = c
            /\ side' = IF c = 0 THEN [side EXCEPT ![newVersion] = newVersion]
                       ELSE side
            /\ Step("wait", "logs", "wait")
       \/ /\ exitCode' = exitCode
          /\ side' = side
          /\ Fail("wait", "wait")

\* Lines 217-220: cli.ContainerLogs.
ContainerLogs ==
    /\ pc = "logs"
    /\ UNCHANGED <<fsVars, localVars>>
    /\ \/ Step("logs", "copyLogs", "logs")
       \/ Fail("logs", "logs")

\* Lines 222-224: stdcopy.StdCopy of the logs to output.
CopyLogs ==
    /\ pc = "copyLogs"
    /\ UNCHANGED <<fsVars, localVars>>
    /\ \/ Step("copyLogs", "mv1", "copyLogs")
       \/ Fail("copyLogs", "copyLogs")

\* execer.Command: once a command has failed the following ones are not run
\* and the first error is kept; e.Error() returns it.
execerCommand(err, outcome) == IF err # "nil" THEN err ELSE outcome

\* Whether execer.Command runs the command at all.
execerRuns(err) == err = "nil"

\* mv src dst, for a destination that does not end in a slash: a missing
\* source fails; an existing destination directory receives src inside it.
MvOutcomes(src) == IF src = "absent" THEN {"err"} ELSE {"nil", "err"}

\* One finalisation command of lines 228-232 at position from.
ExecStep(from, to, ev, outcome, ran) ==
    /\ pc = from
    /\ pc' = to
    /\ eerr' = execerCommand(eerr, outcome)
    /\ log' = IF ran THEN Append(log, ev) ELSE log
    /\ UNCHANGED <<newVersion, oldVersion, bs, status, exitCode, result,
                   errAt, runs, foreign, histVars, pgDefaults, cfgVars>>

\* Line 229: mv path path-oldVersion.
Mv1 ==
    \E outcome \in MvOutcomes(data) :
        LET ran == execerRuns(eerr) /\ outcome = "nil" IN
        /\ ExecStep("mv1", "mv2", "mv1", outcome, ran)
        /\ data' = IF ran THEN "absent" ELSE data
        /\ side' = IF ran /\ side[oldVersion] = "absent"
                   THEN [side EXCEPT ![oldVersion] = data]
                   ELSE side
        /\ UNCHANGED <<upgradeDirs, statusFile>>

\* Line 230: mv path-newVersion path.
Mv2 ==
    \E outcome \in MvOutcomes(side[newVersion]) :
        LET ran == execerRuns(eerr) /\ outcome = "nil" IN
        /\ ExecStep("mv2", "chownNew", "mv2", outcome, ran)
        /\ data' = IF ran /\ data = "absent" THEN side[newVersion] ELSE data
        /\ side' = IF ran THEN [side EXCEPT ![newVersion] = "absent"] ELSE side
        /\ UNCHANGED <<upgradeDirs, statusFile>>

\* Line 231: chown -R postgres path.
ChownNew ==
    \E outcome \in {"nil", "err"} :
        /\ ExecStep("chownNew", "optimize", "chownNew", outcome,
                    execerRuns(eerr) /\ outcome = "nil")
        /\ UNCHANGED fsVars

\* Line 232: su-exec postgres /postgres-optimize.sh path.
Optimize ==
    \E outcome \in {"nil", "err"} :
        /\ ExecStep("optimize", "execerError", "optimize", outcome,
                    execerRuns(eerr) /\ outcome = "nil")
        /\ UNCHANGED fsVars

\* Lines 234-239: e.Error() decides whether the finalisation failed.
ExecerError ==
    /\ pc = "execerError"
    /\ UNCHANGED <<fsVars, localVars>>
    /\ \/ /\ eerr # "nil"
          /\ Fail("execerError", "finalize")
       \/ /\ eerr = "nil"
          /\ Step("execerError", "writeDone", "finalize")

\* The run returns success without the status "done" being written.
WriteDone_noWrite ==
    /\ pc = "writeDone"
    /\ UNCHANGED <<fsVars, localVars>>
    /\ log' = log
    /\ Finish("procfile", "none")

\* A failed write of "done" is passed over and the run returns success.
WriteDone_ignoreError ==
    /\ pc = "writeDone"
    /\ UNCHANGED <<data, side, upgradeDirs, localVars>>
    /\ \/ /\ pc = "writeDone"
          /\ statusFile' = [statusFile EXCEPT ![pair] = "done"]
          /\ log' = Append(log, "writeDone")
          /\ Finish("procfile", "none")
       \/ /\ statusFile' = statusFile
          /\ log' = log
          /\ Finish("procfile", "writeDone")

\* Lines 241-245 (and 90-97 of the caller): the status "done" is written and
\* the run returns the postgres process line.
WriteDone ==
    /\ pc = "writeDone"
    /\ UNCHANGED <<data, side, upgradeDirs, localVars>>
    /\ \/ /\ pc = "writeDone"
          /\ statusFile' = [statusFile EXCEPT ![pair] = "done"]
          /\ log' = Append(log, "writeDone")
          /\ Finish("procfile", "none")
       \/ /\ statusFile' = statusFile
          /\ Fail("writeDone", "writeDone")

(***************************************************************************)
(* The environment.                                                        *)
(***************************************************************************)

\* The process is killed at its current position. A half-done initdb leaves
\* nothing or a directory without PG_VERSION; the helper container, a sibling
\* of the killed process, may still complete.
Crash ==
    /\ pc # "idle"
    /\ log' = log
    /\ UNCHANGED <<upgradeDirs, statusFile, localVars>>
    /\ \/ /\ pc = "initdb"
          /\ data' \in {"absent", "partial"}
          /\ side' = side
       \/ /\ pc = "wait"
          /\ data' = data
          /\ side' \in {side, [side EXCEPT ![newVersion] = newVersion]}
       \/ /\ pc \notin {"initdb", "wait"}
          /\ data' = data
          /\ side' = side
    /\ Finish("killed", "none")

\* Somebody other than the program writes a status file between two runs.
ForeignWrite ==
    /\ pc = "idle"
    /\ foreign < MaxForeignWrites
    /\ foreign' = foreign + 1
    /\ \E p \in upgradeDirs, c \in {"", "garbage"} :
          statusFile' = [statusFile EXCEPT ![p] = c]
    /\ clean' = FALSE
    /\ UNCHANGED <<data, side, upgradeDirs, pc, localVars, result, errAt, log,
                   runs, pending, pendingAtStart, startedAtSuccess, pgDefaults,
                   cfgVars>>

Steps ==
    \/ InitDb \/ ChownPath
    \/ ReadVersion \/ ContainerID \/ NewClient \/ ResolveHostDataDir
    \/ MkdirUpgradeDir \/ ReadStatus \/ Gate \/ VersionCheck
    \/ WriteStarted \/ ImagePull \/ ContainerCreate \/ ContainerStart
    \/ ContainerWait \/ ContainerLogs \/ CopyLogs
    \/ Mv1 \/ Mv2 \/ ChownNew \/ Optimize \/ ExecerError \/ WriteDone

Next == StartRun \/ Steps \/ Crash

\* A startup in an environment where status files are also written from
\* outside.
StartOperatorRun == StartRunUpTo(MaxOperatorRuns)

NextOperator == StartOperatorRun \/ Steps \/ Crash \/ ForeignWrite

\* The program and the crashes alone.
Spec == Init /\ [][Next]_vars

\* The program, the crashes and foreign writes of status files.
SpecOperator == Init /\ [][NextOperator]_vars

\* The operator moves path-newVersion aside and leaves the upgrade directory.
Remediate_moveOnly ==
    /\ pc = "idle"
    /\ result = "error"
    /\ errAt = "gate"
    /\ oldVersion # newVersion
    /\ side' = [side EXCEPT ![newVersion] = "absent"]
    /\ upgradeDirs' = upgradeDirs
    /\ statusFile' = statusFile
    /\ pending' = IF pending = pair THEN <<>> ELSE pending
    /\ remediated' = <<oldVersion, newVersion, runs>>
    /\ clean' = FALSE
    /\ UNCHANGED <<data, pc, localVars, result, errAt, log, runs, foreign,
                   pendingAtStart, startedAtSuccess, pgDefaults, binds, mounts,
                   reqPath, hmOut, verVars, fileVars>>

\* The operator runs the commands a run printed at lines 149-155 for
\* different versions: mv path-newVersion path-newVersion.bak and
\* rm -rf upgradeDir.
Remediate ==
    /\ pc = "idle"
    /\ result = "error"
    /\ errAt = "gate"
    /\ oldVersion # newVersion
    /\ side' = [side EXCEPT ![newVersion] = "absent"]
    /\ upgradeDirs' = upgradeDirs \ {pair}
    /\ statusFile' = [statusFile EXCEPT ![pair] = "absent"]
    /\ pending' = IF pending = pair THEN <<>> ELSE pending
    /\ remediated' = <<oldVersion, newVersion, runs>>
    /\ clean' = FALSE
    /\ UNCHANGED <<data, pc, localVars, result, errAt, log, runs, foreign,
                   pendingAtStart, startedAtSuccess, pgDefaults, binds, mounts,
                   reqPath, hmOut, verVars, fileVars>>

\* The startups of the runs around a remediation.
MaxRecoveryRuns == 3

StartRecoveryRun == StartRunUpTo(MaxRecoveryRuns)

NextRecovery == StartRecoveryRun \/ Steps \/ Crash \/ Remediate

\* The program, the crashes and an operator who follows the printed commands.
SpecRecovery == Init /\ [][NextRecovery]_vars

\* The startups of the runs that are followed to their end.
MaxLiveRuns == 2

StartLiveRun == StartRunUpTo(MaxLiveRuns)

NextLive == StartLiveRun \/ Steps \/ Crash

\* The program and the crashes, where every call of a run returns: a run
\* that can take its next step takes it.
SpecLive == Init /\ [][NextLive]_vars /\ WF_vars(Steps)


(***************************************************************************)
(* hostMountPoint (lines 250-269) as a function of the inspected           *)
(* container.  A string is the sequence of its tokens: ":" is the          *)
(* separator of a bind and every other token is a piece of a path, so that *)
(* "/data/sub" is <<"/data", "/sub">> and has "/data" as a proper prefix.  *)
(***************************************************************************)

\* The longest list of binds and of mounts of an inspected container.
MaxBinds == 2
MaxMounts == 1

HostPaths == {<<"/host/data">>, <<"/mnt">>}
ContainerPaths == {<<"/data">>, <<"/data", "/sub">>}
Modes == {<<"rw">>}

\* The entries of c.HostConfig.Binds: "src:dst", "src:dst:mode" and an entry
\* without a separator.
BindStrings ==
    {s \o <<":">> \o d : s \in HostPaths, d \in ContainerPaths}
    \cup {s \o <<":">> \o d \o <<":">> \o m :
              s \in HostPaths, d \in ContainerPaths, m \in Modes}
    \cup {<<"/data">>}

\* The entries of c.Mounts.
MountPoints == [Source : HostPaths, Destination : ContainerPaths]

SeqsUpTo(S, n) == UNION {[1..k -> S] : k \in 0..n}

\* strings.SplitN(s, ":", 2): s cut at its first separator, s alone when it
\* has none.
SplitN2(s) ==
    IF \E i \in 1..Len(s) : s[i] = ":"
    THEN LET i == CHOOSE k \in 1..Len(s) :
                      s[k] = ":" /\ \A j \in 1..(k - 1) : s[j] # ":"
         IN  <<SubSeq(s, 1, i - 1), SubSeq(s, i + 1, Len(s))>>
    ELSE <<s>>

IsPrefix(p, s) == Len(p) <= Len(s) /\ SubSeq(s, 1, Len(p)) = p

\* A destination also matches the paths below it.
DstMatches_prefix(dst, path) == IsPrefix(dst, path)

\* ps[1] == path of line 257 and mount.Destination == path of line 263.
DstMatches(dst, path) == dst = path

\* The condition of line 257.
BindMatches(b, path) ==
    LET ps == SplitN2(b) IN Len(ps) = 2 /\ DstMatches(ps[2], path)

\* Lines 256-268: the first matching bind, else the first matching mount,
\* else the error.
hostMountPoint(bnds, mnts, path) ==
    IF \E i \in 1..Len(bnds) : BindMatches(bnds[i], path)
    THEN LET i == CHOOSE k \in 1..Len(bnds) :
                      /\ BindMatches(bnds[k], path)
                      /\ \A j \in 1..(k - 1) : ~BindMatches(bnds[j], path)
         IN  <<"ok", SplitN2(bnds[i])[1]>>
    ELSE IF \E i \in 1..Len(mnts) : DstMatches(mnts[i].Destination, path)
    THEN LET i == CHOOSE k \in 1..Len(mnts) :
                      /\ DstMatches(mnts[k].Destination, path)
                      /\ \A j \in 1..(k - 1) :
                             ~DstMatches(mnts[j].Destination, path)
         IN  <<"ok", mnts[i].Source>>
    ELSE <<"err", "notfound">>

\* A container with any binds and mounts, asked for any path.
InitResolve ==
    /\ InitProgram
    /\ NoComparison
    /\ NoFile
    /\ data = "absent"
    /\ binds \in SeqsUpTo(BindStrings, MaxBinds)
    /\ mounts \in SeqsUpTo(MountPoints, MaxMounts)
    /\ reqPath \in ContainerPaths
    /\ hmOut = <<"pending">>

\* Lines 251-268 when ContainerInspect succeeded.
HostMountPointCall ==
    /\ hmOut = <<"pending">>
    /\ hmOut' = hostMountPoint(binds, mounts, reqPath)
    /\ UNCHANGED <<fsVars, pc, localVars, result, errAt, log, runs, foreign,
                   histVars, pgDefaults, binds, mounts, reqPath, verVars,
                   remediated, fileVars>>

\* Lines 251-254 when ContainerInspect failed.
ContainerInspectFails ==
    /\ hmOut = <<"pending">>
    /\ hmOut' = <<"err", "inspect">>
    /\ UNCHANGED <<fsVars, pc, localVars, result, errAt, log, runs, foreign,
                   histVars, pgDefaults, binds, mounts, reqPath, verVars,
                   remediated, fileVars>>

NextResolve == HostMountPointCall \/ ContainerInspectFails

\* hostMountPoint applied once to every container and path of the bounds.
SpecResolve == InitResolve /\ [][NextResolve]_vars


(***************************************************************************)
(* The decision of lines 79-83, 125 and 139-162 as a function of the bytes *)
(* of the marker, of the PG_VERSION variable of the environment and of the *)
(* status.  A string is the sequence of its tokens, "ws" a white-space     *)
(* character: "11.0\n" is <<"11", ".0", "ws">>.                             *)
(***************************************************************************)

\* The longest marker and the longest value of the variable.
MaxVersionLen == 3

VersionTokens == {"ws", "11", "12", ".0"}
VersionStrings == SeqsUpTo(VersionTokens, MaxVersionLen)

\* strings.TrimSpace: the white space at both ends is dropped.
RECURSIVE TrimLeft(_)
TrimLeft(s) ==
    IF s # <<>> /\ Head(s) = "ws" THEN TrimLeft(Tail(s)) ELSE s

RECURSIVE TrimRight(_)
TrimRight(s) ==
    IF s # <<>> /\ s[Len(s)] = "ws"
    THEN TrimRight(SubSeq(s, 1, Len(s) - 1))
    ELSE s

TrimSpace(s) == TrimRight(TrimLeft(s))

\* Lines 80-83: version, "11" when the variable is unset or blank.
ExpectedVersion(env) ==
    LET version == TrimSpace(env)
    IN  IF version = <<>> THEN <<"11">> ELSE version

\* Two versions are the same when their first components are.
SameVersion_major(old, new) ==
    old # <<>> /\ new # <<>> /\ Head(old) = Head(new)

\* oldVersion == newVersion of line 160.
SameVersion(old, new) == old = new

\* Lines 139-164 for the status st: the gate, then the comparison.
Decide(mk, env, st) ==
    IF st = "started" THEN "interrupted"
    ELSE IF SameVersion(TrimSpace(mk), ExpectedVersion(env)) THEN "noop"
    ELSE "upgrade"

\* Any marker and any value of the variable.
InitCompare ==
    /\ InitProgram
    /\ NoInspection
    /\ NoFile
    /\ data = "absent"
    /\ marker \in VersionStrings
    /\ pgVersionEnv \in VersionStrings
    /\ decision = <<"undecided">>

\* The run gets to the gate with some status and decides.
CompareVersions ==
    /\ decision = <<"undecided">>
    /\ \E st \in {"", "started", "done"} :
           decision' = <<st, Decide(marker, pgVersionEnv, st)>>
    /\ UNCHANGED <<fsVars, pc, localVars, result, errAt, log, runs, foreign,
                   histVars, pgDefaults, binds, mounts, reqPath, hmOut,
                   marker, pgVersionEnv, remediated, fileVars>>

NextCompare == CompareVersions

\* The decision taken once for every marker and value of the bounds.
SpecCompare == InitCompare /\ [][NextCompare]_vars


(***************************************************************************)
(* The file handle of package storage (part_000, lines 101-159): its       *)
(* offset under Seek, Read and Write.  int64 is an integer of IntBits bits *)
(* in two's complement.                                                    *)
(***************************************************************************)

\* The width of the integers and the largest size of the file.
IntBits == 4
MaxSize == 2

MinInt == -(2 ^ (IntBits - 1))
MaxInt == 2 ^ (IntBits - 1) - 1
Ints == MinInt..MaxInt

\* The value an integer operation leaves in an int64.
Wrap(x) == ((x - MinInt) % (2 ^ IntBits)) + MinInt

\* A handle at offset 0 on a file of any size.
InitFile ==
    /\ InitProgram
    /\ NoInspection
    /\ NoComparison
    /\ data = "absent"
    /\ offset = 0
    /\ size \in 0..MaxSize
    /\ seekRet = <<"none">>

FileFrame ==
    UNCHANGED <<fsVars, pc, localVars, result, errAt, log, runs, foreign,
                histVars, pgDefaults, binds, mounts, reqPath, hmOut, verVars,
                remediated>>

\* Lines 140-159: Seek(off, whence) with Lstat succeeding.  A panic and an
\* error are recorded with the offset before the call.
Seek ==
    /\ FileFrame
    /\ size' = size
    /\ \E off \in Ints, whence \in 0..3 :
          IF off < 0 \/ whence = 3
          THEN /\ offset' = offset
               /\ seekRet' = <<"panic", offset>>
          ELSE /\ offset' = CASE whence = 0 -> off
                              [] whence = 1 -> Wrap(offset + off)
                              [] whence = 2 -> Wrap(size - off)
               /\ seekRet' = <<"ok", offset'>>

\* Lines 150-153: Seek(off, 2) when Lstat fails.
SeekLstatFails ==
    /\ FileFrame
    /\ size' = size
    /\ offset' = offset
    /\ seekRet' = <<"err", offset>>

\* Lines 115-126: Read sends f.offset and leaves it.
Read ==
    /\ FileFrame
    /\ size' = size
    /\ offset' = offset
    /\ seekRet' = <<"read", offset>>

\* Lines 128-138: Write sends f.offset and leaves it; the file may grow.
Write ==
    /\ FileFrame
    /\ size' \in size..MaxSize
    /\ offset' = offset
    /\ seekRet' = <<"write", offset>>

NextFile == Seek \/ SeekLstatFails \/ Read \/ Write

\* Any sequence of calls on one handle.
SpecFile == InitFile /\ [][NextFile]_vars


(***************************************************************************)
(* Properties.                                                             *)
(***************************************************************************)

NoneOf(l, S) == \A i \in 1..Len(l) : l[i] \notin S

\* e occurs in l somewhere before position i.
Before(l, e, i) == \E j \in 1..(i - 1) : l[j] = e

\* The steps of maybeUpgradePostgres after the version comparison.
UpgradeSteps == {"writeStarted", "pull", "create", "start", "wait", "logs",
                 "copyLogs", "mv1", "mv2", "chownNew", "optimize", "finalize",
                 "writeDone"}

\* The run returned the interrupted-upgrade error of line 156.
ReturnedInterrupted == pc = "idle" /\ result = "error" /\ errAt = "gate"

\* C1: a run that read the status "started" returns the interrupted-upgrade
\* error (unless it is killed first) and performs no status write, no image
\* pull, no container create or start and no rename.
C1_StartedStopsRun ==
    status = "started" =>
        /\ NoneOf(log, {"writeStarted", "writeDone", "pull", "create", "start",
                        "mv1", "mv2"})
        /\ \/ pc = "gate"
           \/ ReturnedInterrupted
           \/ pc = "idle" /\ result = "killed"

C1_Witness == status = "started" /\ ReturnedInterrupted

\* C2: a startup that follows a run interrupted between the write of
\* "started" and the write of "done" (same expected version) never returns
\* the postgres process line: it neither starts the database normally nor
\* initialises a fresh one.
C2_CrashDetected ==
    (/\ pc = "idle"
     /\ pendingAtStart # <<>>
     /\ pendingAtStart = pending
     /\ newVersion = pending[2])
        => result # "procfile"

\* C3: in every run "started" is written before the helper container is
\* created or started and before either rename, and the status file of the
\* pair reads "started" at each of these positions.
C3_StartedBeforeContainerAndRename ==
    /\ \A i \in 1..Len(log) :
          log[i] \in {"create", "start", "mv1", "mv2"}
              => Before(log, "writeStarted", i)
    /\ pc \in {"create", "start", "mv1", "mv2"} => statusFile[pair] = "started"

C3_Witness == HasEv(log, "create") /\ HasEv(log, "mv1") /\ HasEv(log, "mv2")

\* C4: "done" is written only in a run in which the helper container run
\* (exit status 0), the log copy, both renames, the ownership fix and the
\* optimization script all succeeded.
C4_DoneOnlyAfterEverySuccess ==
    HasEv(log, "writeDone") =>
        /\ exitCode = 0
        /\ \A e \in {"wait", "logs", "copyLogs", "mv1", "mv2", "chownNew",
                     "optimize"} : HasEv(log, e)

\* C5: between runs no pair's status reads "started" while the data
\* directories are in the final layout of that pair (old cluster at
\* path-oldVersion, newVersion cluster at path).
C5_NeverStartedWhileSwapped ==
    pc = "idle" =>
        \A p \in Pairs :
            ~(/\ p[1] # p[2]
              /\ statusFile[p] = "started"
              /\ side[p[1]] = p[1]
              /\ data = p[2])

\* C6: a run of maybeUpgradePostgres on a data directory whose marker equals
\* the expected version returns success and performs no upgrade step.
C6_EqualVersionsNoOp ==
    (pc = "idle" /\ result # "killed" /\ oldVersion # ""
     /\ oldVersion = newVersion)
        => result = "procfile" /\ NoneOf(log, UpgradeSteps)

\* C7: after the helper container exited with a non-zero status no rename
\* and no optimization script is executed, "done" is not written, the status
\* stays "started" and the run ends with an error of the container phase
\* (the wait, or the retrieval of the logs that are drained on failure too).
C7_NonZeroExitFailsRun ==
    exitCode > 0 =>
        /\ NoneOf(log, {"mv1", "mv2", "optimize", "writeDone"})
        /\ statusFile[pair] = "started"
        /\ pc = "idle" =>
              \/ result = "killed"
              \/ result = "error" /\ errAt \in {"wait", "logs", "copyLogs"}

UnknownStatusRead == bs \in {"", "garbage"}

BeforeGate == <<"readVersion", "containerID", "newClient", "inspect",
                "mkdirUpgradeDir">>

RECURSIVE Fields(_)
Fields(s) ==
    LET ps == SplitN2(s)
    IN  IF Len(ps) = 1 THEN <<s>> ELSE <<ps[1]>> \o Fields(ps[2])

\* The binds that name a source and a destination.
IsBind(b) == Len(Fields(b)) >= 2
BindSource(b) == Fields(b)[1]
BindDestination(b) == Fields(b)[2]

\* hostMountPoint returned without an inspection error.
Resolved == hmOut # <<"pending">> /\ hmOut # <<"err", "inspect">>

\* C11: hostMountPoint matches destinations by exact equality only: a source
\* it returns belongs to a bind or a mount whose destination is the requested
\* path itself, never a prefix or a parent of it; with the single bind
\* /host/data:/data, /data resolves to /host/data and every other path to
\* the not-found error.
C11_ExactDestinationOnly ==
    Resolved =>
        /\ hmOut[1] = "ok" =>
              \/ \E i \in 1..Len(binds) :
                     /\ IsBind(binds[i])
                     /\ BindDestination(binds[i]) = reqPath
                     /\ BindSource(binds[i]) = hmOut[2]
              \/ \E i \in 1..Len(mounts) :
                     /\ mounts[i].Destination = reqPath
                     /\ mounts[i].Source = hmOut[2]
        /\ (binds = << <<"/host/data", ":", "/data">> >> /\ mounts = <<>>) =>
              hmOut = IF reqPath = <<"/data">>
                      THEN <<"ok", <<"/host/data">> >>
                      ELSE <<"err", "notfound">>

\* /data/sub was asked of the container whose only bind is /host/data:/data.
C11_Witness ==
    /\ binds = << <<"/host/data", ":", "/data">> >>
    /\ mounts = <<>>
    /\ reqPath = <<"/data", "/sub">>
    /\ hmOut = <<"err", "notfound">>

\* C12: a run whose version marker is absent or unreadable fails with the
\* version-unknown error and does nothing else of the upgrade routine: no
\* container call, no upgrade directory, no status read or written.  No run
\* gets past the read of a marker that holds no version.
C12_UnreadableMarkerStopsRun ==
    /\ (pc = "idle" /\ result = "error" /\ errAt = "readVersion") =>
           /\ log = <<"chownPath">>
           /\ ~pgDefaults
    /\ (HasEv(log, "readVersion") /\ ~HasEv(log, "mv1")) =>
           /\ data \in Versions
           /\ oldVersion = data

\* A run found a data directory without a readable marker and returned the
\* version-unknown error.
C12_Witness ==
    /\ pc = "idle"
    /\ result = "error"
    /\ errAt = "readVersion"
    /\ data = "partial"

\* C13: the status file gives back what was written to it.  Right after the
\* write of "started" the file of the pair reads "started", and the gate of a
\* later run for the pair of a run that ended between "started" and "done"
\* observes "started"; after the write of "done" the file reads "done", and a
\* gate that finds "done" in the file observes "done"; a gate that finds no
\* file observes the empty status, and that run does not stop at the gate.
C13_StatusRoundTrip ==
    /\ pc = "pull" => statusFile[pair] = "started"
    /\ HasEv(log, "writeDone") => statusFile[pair] = "done"
    /\ pc = "gate" =>
           /\ pendingAtStart = pair => status = "started"
           /\ statusFile[pair] = "started" => status = "started"
           /\ statusFile[pair] = "done" => status = "done"
           /\ statusFile[pair] = "absent" => status = ""
    /\ (HasEv(log, "readStatus") /\ bs = "absent" /\ pc = "idle") =>
           errAt # "gate"

\* The gate of a run observes the "started" that an earlier run wrote and
\* left behind.
C13_Witness == pc = "gate" /\ pendingAtStart = pair /\ status = "started"

\* The steps of an upgrade in the order of lines 164-243.
UpgradeOrder == <<"writeStarted", "pull", "create", "start", "wait", "logs",
                  "copyLogs", "mv1", "mv2", "chownNew", "optimize", "finalize",
                  "writeDone">>

\* The upgrade steps a run has completed, in the order it completed them.
UpgradePart(l) ==
    LET IsUpgradeStep(ev) == ev \in UpgradeSteps IN SelectSeq(l, IsUpgradeStep)

\* The errors a run can return for the failure of a step: the pull fails in
\* the request or in the copy of its output, and the finalisation commands
\* fail together in e.Error().
FailureOf(step) ==
    IF step = "pull" THEN {"pull", "pullCopy"}
    ELSE IF step \in {"mv1", "mv2", "chownNew", "optimize", "finalize"}
    THEN {"finalize"}
    ELSE {step}

\* C14: a failing step of the upgrade ends the run with an error.  The steps
\* a run has completed are always an initial part of the upgrade order, each
\* once, so that no step runs after a step that failed and none is run
\* again; and a run that started an upgrade and returned without writing
\* "done" returned the error of the first step it did not complete.
C14_FailureStopsRun ==
    LET done == UpgradePart(log) IN
    /\ IsPrefix(done, UpgradeOrder)
    /\ (/\ pc = "idle"
        /\ result # "killed"
        /\ HasEv(log, "versionCheck")
        /\ oldVersion # newVersion
        /\ ~HasEv(log, "writeDone")) =>
           /\ result = "error"
           /\ errAt \in FailureOf(UpgradeOrder[Len(done) + 1])
           /\ ~pgDefaults

\* The start of the helper container failed after the pull and the creation:
\* the run returned that error.
C14_Witness ==
    /\ pc = "idle"
    /\ result = "error"
    /\ errAt = "start"
    /\ UpgradePart(log) = <<"writeStarted", "pull", "create">>

\* The errors maybeUpgradePostgres returns.
UpgradeErrors == {"readVersion", "containerID", "newClient", "inspect",
                  "hostMountPoint", "mkdirUpgradeDir", "readStatus", "gate",
                  "writeStarted", "pull", "pullCopy", "create", "start",
                  "wait", "logs", "copyLogs", "finalize", "writeDone"}

\* C15: whenever maybeUpgradePostgres returns an error, maybePostgresProcFile
\* returns that error and no process line, and the PGHOST, PGUSER, PGDATABASE
\* and PGSSLMODE defaults are not set; a run over an existing data directory
\* sets them only after maybeUpgradePostgres returned nil, from the version
\* comparison or after the write of "done".
C15_UpgradeErrorStopsStartup ==
    /\ (pc = "idle" /\ errAt \in UpgradeErrors) =>
           /\ result = "error"
           /\ ~pgDefaults
    /\ (pgDefaults /\ HasEv(log, "chownPath")) =>
           /\ pc = "idle"
           /\ result = "procfile"
           /\ \/ HasEv(log, "writeDone")
              \/ HasEv(log, "versionCheck") /\ oldVersion = newVersion

\* maybeUpgradePostgres returned the interrupted-upgrade error and the
\* startup ended with it.
C15_Witness ==
    /\ pc = "idle"
    /\ errAt = "gate"
    /\ result = "error"
    /\ ~pgDefaults
    /\ HasEv(log, "readStatus")

\* An upgrade to the expected version of the current run was once completed
\* and the marker of the data directory reads that version.
SteadyState ==
    /\ HasEv(log, "readVersion")
    /\ oldVersion = newVersion
    /\ \E o \in Versions \ {newVersion} : statusFile[<<o, newVersion>>] = "done"

\* C16: once an upgrade has been completed (the marker reads the new version,
\* the status reads "done"), every later run with the same expected version
\* that is not killed returns success and performs no upgrade step.
C16_SteadyStateNoOp ==
    (pc = "idle" /\ result # "killed" /\ SteadyState)
        => /\ result = "procfile"
           /\ NoneOf(log, UpgradeSteps)
           /\ data = newVersion

\* The steps C17 names, in its order.
ScenarioOrder == <<"pull", "create", "start", "wait", "mv1", "mv2",
                   "optimize", "writeDone">>

ScenarioPart(l) ==
    LET InScenario(ev) == \E i \in 1..Len(ScenarioOrder) : ScenarioOrder[i] = ev
    IN  SelectSeq(l, InScenario)

\* C17: a run that performed an upgrade and returned success did the pull,
\* the creation, the start, the wait, the two renames, the optimization script
\* and the write of "done" in that order, each once; and a rename happens
\* only after the wait observed the exit code 0.
C17_SuccessfulUpgradeOrder ==
    /\ (pc = "idle" /\ result = "procfile" /\ HasEv(log, "writeDone")) =>
           ScenarioPart(log) = ScenarioOrder
    /\ (HasEv(log, "mv1") \/ HasEv(log, "mv2")) =>
           /\ HasEv(log, "wait")
           /\ exitCode = 0

\* The run ended in the retrieval of the logs or in their copy.
DrainFailed == result = "error" /\ errAt \in {"logs", "copyLogs"}

\* C18 as stated: a run that started the helper container and whose wait
\* returned, with a status or with an error, has copied the logs of the
\* container to the output before it returns (unless the retrieval or the
\* copy itself failed).
C18_LogsDrainedAfterWait ==
    (pc = "idle" /\ result # "killed" /\ HasEv(log, "start")
     /\ (HasEv(log, "wait") \/ errAt = "wait"))
        => HasEv(log, "copyLogs") \/ DrainFailed

\* C18, amended: a run whose wait returned a status, zero or not, has copied
\* the logs of the container to the output before any finalisation command
\* and before it returns (unless the retrieval or the copy itself failed); a
\* run whose wait returned an error returns it without retrieving the logs.
C18_LogsDrainedAfterExit ==
    /\ (pc = "idle" /\ result # "killed" /\ HasEv(log, "wait")) =>
           HasEv(log, "copyLogs") \/ DrainFailed
    /\ pc \in {"mv1", "mv2", "chownNew", "optimize", "execerError",
               "writeDone"} => HasEv(log, "copyLogs")
    /\ (pc = "idle" /\ result = "error" /\ errAt = "wait") =>
           NoneOf(log, {"wait", "logs", "copyLogs"})

\* The helper container exited with a failure status and its logs were
\* copied to the output.
C18_Witness == exitCode = 1 /\ HasEv(log, "wait") /\ HasEv(log, "copyLogs")

\* The positions of the binds and of the mounts whose destination is the
\* requested path.
BindsTo(path) ==
    {i \in 1..Len(binds) : IsBind(binds[i]) /\ BindDestination(binds[i]) = path}
MountsTo(path) == {i \in 1..Len(mounts) : mounts[i].Destination = path}

First(S) == CHOOSE i \in S : \A j \in S : i <= j

\* C19: hostMountPoint returns the source of the first bind whose destination
\* is the requested path; when no bind has that destination, the source of
\* the first mount that has it; and the error only when neither list has it.
C19_BindsThenMounts ==
    Resolved =>
        hmOut = IF BindsTo(reqPath) # {}
                THEN <<"ok", BindSource(binds[First(BindsTo(reqPath))])>>
                ELSE IF MountsTo(reqPath) # {}
                THEN <<"ok", mounts[First(MountsTo(reqPath))].Source>>
                ELSE <<"err", "notfound">>

\* C20: when a bind has the requested path as its destination, with or
\* without a trailing mode field, hostMountPoint returns the source of such a
\* bind, and returns the same whatever the mounts are.
C20_BindWithModeResolved ==
    (Resolved /\ BindsTo(reqPath) # {}) =>
        /\ hmOut[1] = "ok"
        /\ \E i \in BindsTo(reqPath) : hmOut[2] = BindSource(binds[i])
        /\ hmOut = hostMountPoint(binds, <<>>, reqPath)

\* C21: a run whose write of "started" failed returns an error and has
\* pulled no image, created no container and renamed nothing; a run whose
\* write of "done" failed returns an error and not the process line.
C21_StatusWriteFailureIsFatal ==
    /\ (pc = "idle" /\ errAt = "writeStarted") =>
           /\ result = "error"
           /\ NoneOf(log, UpgradeSteps)
           /\ statusFile[pair] # "started"
    /\ (pc = "idle" /\ errAt = "writeDone") =>
           /\ result = "error"
           /\ ~pgDefaults
           /\ statusFile[pair] = "started"

\* The finalisation succeeded and the write of "done" failed.
C21_Witness ==
    /\ pc = "idle"
    /\ errAt = "writeDone"
    /\ HasEv(log, "finalize")
    /\ result = "error"

\* What a run reads of the status files, and which of them it may change.
OwnStatusOnly ==
    /\ pc = "gate" => bs = statusFile[pair]
    /\ ReturnedInterrupted => statusFile[pair] = "started"

WritesOwnStatusOnly ==
    \A p \in Pairs : statusFile'[p] # statusFile[p] => p = pair

\* C22: the status is kept per pair (oldVersion, newVersion).  The gate of a
\* run decides on the status file of the run's own pair, so a "started" left
\* for another pair does not stop it, and no step changes the status file of
\* a pair other than that of the current run.
C22_LedgerKeyedByPair == []OwnStatusOnly /\ [][WritesOwnStatusOnly]_vars

\* A run passed the gate while the status of another pair read "started".
C22_Witness ==
    /\ pc = "versionCheck"
    /\ HasEv(log, "gate")
    /\ \E p \in StartedPairs(statusFile) : p # pair

\* The calls that need the container runtime before any upgrade step.
RuntimeProbes == {"containerID", "newClient", "inspect"}

\* C23: a run whose marker equals the expected version, with a status other
\* than "started", makes no call of RuntimeProbes and, unless it is killed,
\* returns success; such a call is made only after the comparison of the
\* versions found them different.
C23_ProbesOnlyAfterMismatch ==
    /\ (HasEv(log, "readVersion") /\ oldVersion = newVersion
        /\ statusFile[pair] # "started") =>
           /\ NoneOf(log, RuntimeProbes)
           /\ (pc = "idle" /\ result # "killed") => result = "procfile"
    /\ \A i \in 1..Len(log) :
           log[i] \in RuntimeProbes => Before(log, "versionCheck", i)

\* s without the white space at its ends: what lies between its first and
\* its last token that is not white space.
Core(s) ==
    LET solid == {i \in 1..Len(s) : s[i] # "ws"}
    IN  IF solid = {} THEN <<>>
        ELSE SubSeq(s, CHOOSE i \in solid : \A j \in solid : i <= j,
                       CHOOSE i \in solid : \A j \in solid : j <= i)

\* The expected version: the variable without its outer white space, "11"
\* when nothing is left.
Expected == IF Core(pgVersionEnv) = <<>> THEN <<"11">> ELSE Core(pgVersionEnv)

\* C24: the need for an upgrade is decided by the equality, token by token,
\* of the trimmed marker and the trimmed expected version ("11" when unset or
\* blank): equal strings never start an upgrade, and unequal strings, "11"
\* and "11.0" or a newer marker among them, start one whenever the status is
\* not "started".
C24_ExactStringEquality ==
    decision # <<"undecided">> =>
        /\ Core(marker) = Expected => decision[2] # "upgrade"
        /\ (Core(marker) # Expected /\ decision[1] # "started") =>
               decision[2] = "upgrade"
        /\ decision[1] = "started" => decision[2] = "interrupted"

\* The marker reads "11.0\n", the variable is unset and the status "done":
\* an upgrade is started.
C24_Witness ==
    /\ marker = <<"11", ".0", "ws">>
    /\ pgVersionEnv = <<>>
    /\ decision = <<"done", "upgrade">>

\* maybeUpgradePostgres is running.
InUpgrade == pc \notin {"idle", "initdb", "chown"}

\* C25: when every call returns, every run of maybeUpgradePostgres comes to
\* its end, in success, in an error or killed; the wait for the container
\* ends with the status or with the error, whichever is delivered.
C25_RunTerminates ==
    InUpgrade ~> (pc = "idle" /\ result \in {"procfile", "error", "killed"})

\* A run that waited for the helper container has returned.
C25_Witness ==
    /\ pc = "idle"
    /\ HasEv(log, "wait")
    /\ result \in {"procfile", "error"}

\* The current run is the first one after the operator remediated its pair.
FirstRunAfterRemedy ==
    /\ remediated # <<>>
    /\ remediated = <<oldVersion, newVersion, runs - 1>>

\* C26: a run for the pair of an earlier run that ended between "started"
\* and "done", with the data directory still in place, returns the
\* interrupted-upgrade error at the gate and performs no upgrade step; the
\* first run for that pair after the operator applied the printed commands
\* finds no status file, passes the gate with the empty status and goes on to
\* the upgrade with the old data directory as it was.
C26_RemediationAllowsRetry ==
    /\ (pc = "idle" /\ result # "killed" /\ HasEv(log, "readStatus")
        /\ pendingAtStart = pair) =>
           /\ ReturnedInterrupted
           /\ NoneOf(log, UpgradeSteps)
           /\ data = oldVersion
    /\ (FirstRunAfterRemedy /\ HasEv(log, "readStatus")) =>
           /\ bs = "absent"
           /\ status = ""
           /\ errAt # "gate"
           /\ pc \in {"gate", "versionCheck", "writeStarted"} =>
                  data = oldVersion /\ side[newVersion] = "absent"

\* After the remediation the run of the same pair has written "started"
\* again and is about to pull the image.
C26_Witness ==
    /\ FirstRunAfterRemedy
    /\ pc = "pull"
    /\ HasEv(log, "writeStarted")
    /\ data = oldVersion

\* C27: the program writes no status for a pair of equal versions: as long
\* as only the program and crashes act, the status file of every pair (v, v)
\* is absent, and a run that returns the interrupted-upgrade error has
\* different versions.
C27_NoStatusForEqualVersions ==
    /\ \A v \in Versions : statusFile[<<v, v>>] = "absent"
    /\ ReturnedInterrupted => oldVersion # newVersion
    /\ pc \in {"writeStarted", "pull", "writeDone"} => oldVersion # newVersion

\* A run on equal versions created its upgrade directory and returned
\* success.
C27_Witness ==
    /\ pc = "idle"
    /\ result = "procfile"
    /\ oldVersion = newVersion
    /\ pair \in upgradeDirs
    /\ HasEv(log, "versionCheck")

\* The last startup found PGHOST or PGDATASOURCE set.
ExternallyConfigured == pc = "idle" /\ result = "external"

ExternalDoesNothing ==
    ExternallyConfigured =>
        /\ log = <<>>
        /\ errAt = "none"
        /\ oldVersion = ""
        /\ bs = "unread"
        /\ status = "unread"
        /\ ~pgDefaults

ExternalChangesNothing ==
    (runs' # runs /\ result' = "external") =>
        /\ pc' = "idle"
        /\ fsVars' = fsVars

\* C28: with PGHOST or PGDATASOURCE set, maybePostgresProcFile returns no
\* process line and no error and has done nothing: no step was made, neither
\* the marker nor a status was read, no default was set, and the data
\* directory, the directories beside it, the upgrade directories and the
\* status files are what they were.
C28_ExternalDatabaseNoOp ==
    []ExternalDoesNothing /\ [][ExternalChangesNothing]_vars

\* A startup with an external database next to an existing data directory.
C28_Witness == ExternallyConfigured /\ runs > 0 /\ data \in Versions

C30_SeekOffsetNonNegative ==
    /\ seekRet[1] = "ok" => offset >= 0 /\ seekRet[2] = offset
    /\ seekRet[1] \in {"panic", "err", "read", "write"} => seekRet[2] = offset

====
